---- MODULE Spec2Model ----
(***************************************************************************)
(* Model of generate_pdf_request.py: the FERPA-waiver request pipeline.    *)
(* Strings are sequences of one-character strings, so that stripping,      *)
(* line splitting, the naming regex and the glob are computed character by *)
(* character.  A folder is a set of entries (name, is_file); the order in  *)
(* which the operating system enumerates it is chosen at each call.        *)
(***************************************************************************)
EXTENDS Integers, Sequences, FiniteSets, TLC

VARIABLES
    argv_len,                \* len(sys.argv)
    ids_file,                \* the file named by sys.argv[2]
    folder,                  \* the folder named by sys.argv[1]
    pc,                      \* position in main()
    eyf_ids,                 \* main: eyf_ids
    valid_files,             \* main: valid_files
    invalid_files,           \* main: invalid_files
    eyf_ids_with_filepaths,  \* main: eyf_ids_with_filepaths
    pdfs_to_combine,         \* main: pdfs_to_combine
    response,                \* what input() read at the prompt
    user_input,              \* main: user_input
    exc,                     \* the exception in flight or last raised
    stdout,                  \* the lines printed so far
    calls,                   \* the functions main has called, in order
    combine_arg,             \* the arguments combine_pdfs was called with
    exit_status,             \* the process's exit status once pc = "exit"
    unit                     \* a direct call of one function and its result

env_vars == <<argv_len, ids_file, folder>>
main_vars == <<pc, eyf_ids, valid_files, invalid_files, eyf_ids_with_filepaths,
               pdfs_to_combine, response, user_input, exc, stdout, calls,
               combine_arg, exit_status>>
vars == <<argv_len, ids_file, folder, pc, eyf_ids, valid_files, invalid_files,
          eyf_ids_with_filepaths, pdfs_to_combine, response, user_input, exc,
          stdout, calls, combine_arg, exit_status, unit>>

----------------------------------------------------------------------------
(* Bounds of the model *)

\* the longest identifier file, in lines (main) or identifiers (matcher)
MaxIds == 2
\* the largest folder, in entries
MaxFiles == 2
\* the largest folder handed to validate_file_formats directly, in entries
MaxListed == 3
\* the longest text handed to read_eyf_ids_from_file directly, in characters
MaxTextLen == 4
\* the longest match-result sequence handed to process_waiver_matches
MaxResults == 3

----------------------------------------------------------------------------
(* Characters and strings *)

UpperCase == <<"A","B","C","D","E","F","G","H","I","J","K","L","M",
               "N","O","P","Q","R","S","T","U","V","W","X","Y","Z">>
LowerCase == <<"a","b","c","d","e","f","g","h","i","j","k","l","m",
               "n","o","p","q","r","s","t","u","v","w","x","y","z">>

Range(s) == {s[i] : i \in DOMAIN s}

Digits == {"0","1","2","3","4","5","6","7","8","9"}
UpperLetters == Range(UpperCase)
Letters == Range(UpperCase) \cup Range(LowerCase)
Whitespace == {" ", "\t", "\n", "\r", "\f"}

IsDigit(c) == c \in Digits
IsAlpha(c) == c \in Letters
IsSpace(c) == c \in Whitespace

\* str.lower() on one character
LowerChar(c) ==
    IF c \in UpperLetters
    THEN LowerCase[CHOOSE i \in DOMAIN UpperCase : UpperCase[i] = c]
    ELSE c

\* str.lower()
Lower(s) == [i \in DOMAIN s |-> LowerChar(s[i])]

\* str.strip(): drop the leading and the trailing whitespace
Strip(s) ==
    LET inked == {i \in DOMAIN s : ~IsSpace(s[i])}
    IN  IF inked = {} THEN <<>>
        ELSE SubSeq(s, CHOOSE i \in inked : \A j \in inked : i <= j,
                       CHOOSE i \in inked : \A j \in inked : j <= i)

\* whether t occurs in s starting at position p
HasAt(s, p, t) ==
    /\ p >= 1
    /\ p + Len(t) - 1 <= Len(s)
    /\ \A k \in 1..Len(t) : s[p + k - 1] = t[k]

SeqsUpTo(S, n) == UNION {[1..k -> S] : k \in 0..n}

\* the orders in which a set can be enumerated
Orders(S) ==
    {o \in [1..Cardinality(S) -> S] : \A i, j \in DOMAIN o : i # j => o[i] # o[j]}

RECURSIVE Concat(_)
Concat(ss) == IF ss = <<>> THEN <<>> ELSE Head(ss) \o Concat(Tail(ss))

----------------------------------------------------------------------------
(* re.compile(regex_pattern).match(filename), for the pattern main passes:  *)
(*     ^[0-9]+_[A-Za-z ]+_KCS Records Consent_.*\.pdf$                       *)

ConsentLiteral ==
    <<"_","K","C","S"," ","R","e","c","o","r","d","s"," ",
      "C","o","n","s","e","n","t","_">>
PdfSuffix == <<".","p","d","f">>

\* .*\.pdf$ : "." matches no newline, "$" matches at the end and before a
\* newline that ends the string
MatchesTail(r) ==
    \E e \in {Len(r) - 1, Len(r)} :
        /\ e >= Len(PdfSuffix)
        /\ e = Len(r) \/ r[Len(r)] = "\n"
        /\ HasAt(r, e - Len(PdfSuffix) + 1, PdfSuffix)
        /\ \A k \in 1..(e - Len(PdfSuffix)) : r[k] # "\n"

regex_match(filename) ==
    \E i \in 1..Len(filename) : \E j \in (i + 2)..Len(filename) :
        /\ \A k \in 1..i : IsDigit(filename[k])
        /\ filename[i + 1] = "_"
        /\ \A k \in (i + 2)..j : IsAlpha(filename[k]) \/ filename[k] = " "
        /\ HasAt(filename, j + 1, ConsentLiteral)
        /\ MatchesTail(SubSeq(filename, j + 1 + Len(ConsentLiteral), Len(filename)))

----------------------------------------------------------------------------
(* File names.  A name is held as a string and taken apart through its      *)
(* spelling, the sequence of its characters.                                *)

Waiver(id, client, rest) == id \o <<"_">> \o client \o ConsentLiteral \o rest \o PdfSuffix

Spelling ==
    [n \in {"1_a_KCS Records Consent_x.pdf", "1_b_KCS Records Consent_.pdf",
            "12_a b_KCS Records Consent_y.pdf", "a_b_KCS Records Consent_x.pdf",
            "1_a.pdf", "12_d.pdf"} |->
        CASE n = "1_a_KCS Records Consent_x.pdf" -> Waiver(<<"1">>, <<"a">>, <<"x">>)
          [] n = "1_b_KCS Records Consent_.pdf" -> Waiver(<<"1">>, <<"b">>, <<>>)
          [] n = "12_a b_KCS Records Consent_y.pdf" ->
                 Waiver(<<"1", "2">>, <<"a", " ", "b">>, <<"y">>)
          [] n = "a_b_KCS Records Consent_x.pdf" -> Waiver(<<"a">>, <<"b">>, <<"x">>)
          [] n = "1_a.pdf" -> <<"1", "_", "a">> \o PdfSuffix
          [] n = "12_d.pdf" -> <<"1", "2", "_", "d">> \o PdfSuffix]

chars(name) == Spelling[name]

----------------------------------------------------------------------------
(* validate_file_formats.  listing is folder.iterdir(): the entries of the  *)
(* folder in the order the operating system gives them.                     *)

FolderDoesNotExist == [type |-> "ValueError", msg |-> "Folder does not exist"]

\* the same with "if file_path.is_file()" left out: subfolders are classified too
validate_file_formats_no_is_file(fld, listing) ==
    IF ~fld.exists
    THEN [raised |-> TRUE, exc |-> FolderDoesNotExist]
    ELSE LET good == SelectSeq(listing, LAMBDA e : regex_match(chars(e.name)))
             bad == SelectSeq(listing, LAMBDA e : ~regex_match(chars(e.name)))
         IN  [raised |-> FALSE,
              valid_files |-> [i \in DOMAIN good |-> good[i].name],
              invalid_files |-> [i \in DOMAIN bad |-> bad[i].name]]

validate_file_formats(fld, listing) ==
    IF ~fld.exists
    THEN [raised |-> TRUE, exc |-> FolderDoesNotExist]
    ELSE LET files == SelectSeq(listing, LAMBDA e : e.is_file)
             good == SelectSeq(files, LAMBDA e : regex_match(chars(e.name)))
             bad == SelectSeq(files, LAMBDA e : ~regex_match(chars(e.name)))
         IN  [raised |-> FALSE,
              valid_files |-> [i \in DOMAIN good |-> good[i].name],
              invalid_files |-> [i \in DOMAIN bad |-> bad[i].name]]

----------------------------------------------------------------------------
(* get_files_for_eyf_ids.  Path.glob matches each entry name of the folder  *)
(* against the pattern with "*" (any run of characters) and "?" (any one    *)
(* character) as wildcards, every other character standing for itself.      *)

\* the positions of name that the first j characters of pat can reach: p is
\* reached when those characters match name[1..p-1]
RECURSIVE fnmatch_reach(_, _, _)
fnmatch_reach(name, pat, j) ==
    IF j = 0 THEN {1}
    ELSE LET before == fnmatch_reach(name, pat, j - 1)
         IN  IF pat[j] = "*"
             THEN {p \in 1..(Len(name) + 1) : \E q \in before : q <= p}
             ELSE IF pat[j] = "?"
             THEN {q + 1 : q \in {r \in before : r <= Len(name)}}
             ELSE {q + 1 : q \in {r \in before : r <= Len(name) /\ name[r] = pat[j]}}

\* the whole name matches the whole pattern
fnmatch(name, pat) == (Len(name) + 1) \in fnmatch_reach(name, pat, Len(pat))

\* f"{eyf_id}*.pdf": the delimiter after the identifier left out
glob_pattern_no_delimiter(eyf_id) == eyf_id \o <<"*">> \o PdfSuffix

\* f"{eyf_id}_*.pdf"
glob_pattern(eyf_id) == eyf_id \o <<"_", "*">> \o PdfSuffix

\* list(folder.glob(pattern)): files and subfolders alike
glob(listing, pat) ==
    LET hits == SelectSeq(listing, LAMBDA e : fnmatch(chars(e.name), pat))
    IN  [i \in DOMAIN hits |-> hits[i].name]

get_files_for_eyf_ids(fld, listing, ids) ==
    IF ~fld.exists
    THEN [raised |-> TRUE, exc |-> FolderDoesNotExist]
    ELSE [raised |-> FALSE,
          value |-> [i \in DOMAIN ids |->
                        <<ids[i], glob(listing, glob_pattern(ids[i]))>>]]

----------------------------------------------------------------------------
(* read_eyf_ids_from_file.  open(ids_file, 'r') reads with universal        *)
(* newlines: "\r\n" and "\r" arrive as "\n"; iterating the file gives the   *)
(* lines, each with its newline, the last one possibly without.             *)

FileNotFound == [type |-> "FileNotFoundError", msg |-> "No such file or directory"]

RECURSIVE TranslateNewlines(_)
TranslateNewlines(s) ==
    IF s = <<>> THEN <<>>
    ELSE IF Head(s) = "\r"
         THEN IF Len(s) >= 2 /\ s[2] = "\n"
              THEN <<"\n">> \o TranslateNewlines(SubSeq(s, 3, Len(s)))
              ELSE <<"\n">> \o TranslateNewlines(Tail(s))
    ELSE <<Head(s)>> \o TranslateNewlines(Tail(s))

RECURSIVE ReadLines(_)
ReadLines(s) ==
    IF s = <<>> THEN <<>>
    ELSE LET ends == {i \in DOMAIN s : s[i] = "\n"}
         IN  IF ends = {} THEN <<s>>
             ELSE LET i == CHOOSE e \in ends : \A f \in ends : e <= f
                  IN  <<SubSeq(s, 1, i)>> \o ReadLines(SubSeq(s, i + 1, Len(s)))

read_eyf_ids_from_file(f) ==
    IF ~f.exists
    THEN [raised |-> TRUE, exc |-> FileNotFound]
    ELSE LET lines == ReadLines(TranslateNewlines(f.text))
         IN  [raised |-> FALSE, value |-> [i \in DOMAIN lines |-> Strip(lines[i])]]

----------------------------------------------------------------------------
(* process_waiver_matches: the loop over the match results, carrying        *)
(* pdfs_to_combine and what has been printed.                               *)

\* one pass of the loop body with "elif len(filepaths) > 1" dropped: the
\* first candidate of an ambiguous identifier is taken
process_one_first_candidate(acc, eyf_id, filepaths) ==
    IF Len(filepaths) = 0
    THEN [acc EXCEPT !.printed = @ \o <<<<"no_waiver", eyf_id>>>>]
    ELSE [acc EXCEPT !.value = Append(@, filepaths[1])]

\* one pass of the loop body
process_one(acc, eyf_id, filepaths) ==
    IF Len(filepaths) = 0
    THEN [acc EXCEPT !.printed = @ \o <<<<"no_waiver", eyf_id>>>>]
    ELSE IF Len(filepaths) > 1
    THEN [acc EXCEPT !.printed =
              @ \o <<<<"multiple", eyf_id>>>>
                \o [k \in DOMAIN filepaths |-> <<"candidate", filepaths[k]>>]]
    ELSE [acc EXCEPT !.value = Append(@, filepaths[1])]

\* the loop with a return on the first error: it stops at the first
\* identifier that has no waiver or several
RECURSIVE process_loop_stops_at_error(_, _, _)
process_loop_stops_at_error(results, i, acc) ==
    IF i > Len(results) \/ Len(acc.printed) > 0 THEN acc
    ELSE process_loop_stops_at_error(results, i + 1,
                                     process_one(acc, results[i][1], results[i][2]))

RECURSIVE process_loop(_, _, _)
process_loop(results, i, acc) ==
    IF i > Len(results) THEN acc
    ELSE process_loop(results, i + 1, process_one(acc, results[i][1], results[i][2]))

process_waiver_matches(results) ==
    process_loop(results, 1, [value |-> <<>>, printed |-> <<>>])

----------------------------------------------------------------------------
(* combine_pdfs: prints the list it is given *)

combine_pdfs(pdf_list) ==
    <<<<"pdfs_to_combine">>>> \o [k \in DOMAIN pdf_list |-> <<"pdf", pdf_list[k]>>]

----------------------------------------------------------------------------
(* The inputs the model draws from *)

\* folder entries: three well-named waivers (two of identifier 1, one of
\* identifier 12), two badly named files, one subfolder
Entries ==
    { [name |-> "1_a_KCS Records Consent_x.pdf", is_file |-> TRUE],
      [name |-> "1_b_KCS Records Consent_.pdf", is_file |-> TRUE],
      [name |-> "12_a b_KCS Records Consent_y.pdf", is_file |-> TRUE],
      [name |-> "a_b_KCS Records Consent_x.pdf", is_file |-> TRUE],
      [name |-> "1_a.pdf", is_file |-> TRUE],
      [name |-> "12_d.pdf", is_file |-> FALSE] }

FoldersUpTo(n) ==
    {[exists |-> FALSE, entries |-> {}]} \cup
    {[exists |-> TRUE, entries |-> S] :
        S \in {T \in SUBSET Entries : Cardinality(T) <= n}}

Folders == FoldersUpTo(MaxFiles)

\* lines of an identifier file, without their newline
IdLines ==
    { <<"1">>, <<" ", "1", "2", "\t">>, <<"1", "_", "a">> }

\* the identifiers those lines hold
Ids == {Strip(l) : l \in IdLines}

\* identifiers handed to get_files_for_eyf_ids directly: the same, and two
\* that hold a character the glob reads as a wildcard
GlobIds == Ids \cup { <<"1", "*">>, <<"1", "?">> }

IdsFiles ==
    {[exists |-> FALSE, text |-> <<>>]} \cup
    {[exists |-> TRUE,
      text |-> Concat([i \in DOMAIN ls |-> ls[i] \o <<"\n">>])] :
        ls \in SeqsUpTo(IdLines, MaxIds)}

ArgvLens == {2, 3}

\* what the user may type at the prompt (input() drops the newline)
Responses ==
    { <<"y">>, <<" ", "Y">>, <<"n">>, <<>>, <<"y", "e", "s">> }

\* input() at end of input raises EOFError
EndOfInput == [type |-> "EOFError", msg |-> "EOF when reading a line"]
NoException == [type |-> "none", msg |-> ""]
NoCall == [fn |-> "none"]

----------------------------------------------------------------------------
(* main() *)

Terminated == pc \in {"exit", "uncaught"}

InitMain ==
    /\ pc = "args"
    /\ eyf_ids = <<>>
    /\ valid_files = <<>>
    /\ invalid_files = <<>>
    /\ eyf_ids_with_filepaths = <<>>
    /\ pdfs_to_combine = <<>>
    /\ response = <<>>
    /\ user_input = <<>>
    /\ exc = NoException
    /\ stdout = <<>>
    /\ calls = <<>>
    /\ combine_arg = <<>>
    /\ exit_status = 0

Init ==
    /\ argv_len \in ArgvLens
    /\ ids_file \in IdsFiles
    /\ folder \in Folders
    /\ InitMain
    /\ unit = NoCall

\* lines 110-117
CheckArgs ==
    /\ pc = "args"
    /\ IF argv_len # 3
       THEN /\ stdout' = stdout \o <<<<"usage">>>>
            /\ pc' = "exit"
            /\ exit_status' = 1
       ELSE /\ pc' = "read"
            /\ UNCHANGED <<stdout, exit_status>>
    /\ UNCHANGED <<eyf_ids, valid_files, invalid_files, eyf_ids_with_filepaths,
                   pdfs_to_combine, response, user_input, exc, calls, combine_arg>>
    /\ UNCHANGED <<env_vars, unit>>

\* line 119, which is outside the try block: a failure leaves main, and the
\* interpreter ends with a traceback and status 1
ReadIds ==
    /\ pc = "read"
    /\ calls' = Append(calls, "read_eyf_ids_from_file")
    /\ LET r == read_eyf_ids_from_file(ids_file)
       IN  IF r.raised
           THEN /\ exc' = r.exc
                /\ pc' = "uncaught"
                /\ exit_status' = 1
                /\ UNCHANGED eyf_ids
           ELSE /\ eyf_ids' = r.value
                /\ pc' = "validate"
                /\ UNCHANGED <<exc, exit_status>>
    /\ UNCHANGED <<valid_files, invalid_files, eyf_ids_with_filepaths,
                   pdfs_to_combine, response, user_input, stdout, combine_arg>>
    /\ UNCHANGED <<env_vars, unit>>

\* line 125
Validate ==
    /\ pc = "validate"
    /\ calls' = Append(calls, "validate_file_formats")
    /\ \E listing \in Orders(folder.entries) :
         LET r == validate_file_formats(folder, listing)
         IN  IF r.raised
             THEN /\ exc' = r.exc
                  /\ pc' = "except"
                  /\ UNCHANGED <<valid_files, invalid_files>>
             ELSE /\ valid_files' = r.valid_files
                  /\ invalid_files' = r.invalid_files
                  /\ pc' = "check"
                  /\ UNCHANGED exc
    /\ UNCHANGED <<eyf_ids, eyf_ids_with_filepaths, pdfs_to_combine, response,
                   user_input, stdout, combine_arg, exit_status>>
    /\ UNCHANGED <<env_vars, unit>>

\* line 147, "except Exception": the exception types the handler catches;
\* SystemExit and KeyboardInterrupt are no Exception
handler_catches_all(type) == TRUE

handler_catches(type) == type \notin {"SystemExit", "KeyboardInterrupt", "GeneratorExit"}

\* lines 127-131: sys.exit(1) raises SystemExit inside the try block; when
\* the handler does not catch it the process ends with status 1
CheckInvalid ==
    /\ pc = "check"
    /\ IF Len(invalid_files) > 0
       THEN /\ stdout' = stdout \o <<<<"format_error">>>>
                           \o [k \in DOMAIN invalid_files |->
                                  <<"invalid_file", invalid_files[k]>>]
            /\ IF handler_catches("SystemExit")
               THEN /\ exc' = [type |-> "SystemExit", msg |-> "1"]
                    /\ pc' = "except"
                    /\ UNCHANGED exit_status
               ELSE /\ pc' = "exit"
                    /\ exit_status' = 1
                    /\ UNCHANGED exc
       ELSE /\ pc' = "match"
            /\ UNCHANGED <<stdout, exc, exit_status>>
    /\ UNCHANGED <<eyf_ids, valid_files, invalid_files, eyf_ids_with_filepaths,
                   pdfs_to_combine, response, user_input, calls, combine_arg>>
    /\ UNCHANGED <<env_vars, unit>>

\* line 133
Match ==
    /\ pc = "match"
    /\ calls' = Append(calls, "get_files_for_eyf_ids")
    /\ \E listing \in Orders(folder.entries) :
         LET r == get_files_for_eyf_ids(folder, listing, eyf_ids)
         IN  IF r.raised
             THEN /\ exc' = r.exc
                  /\ pc' = "except"
                  /\ UNCHANGED eyf_ids_with_filepaths
             ELSE /\ eyf_ids_with_filepaths' = r.value
                  /\ pc' = "process"
                  /\ UNCHANGED exc
    /\ UNCHANGED <<eyf_ids, valid_files, invalid_files, pdfs_to_combine, response,
                   user_input, stdout, combine_arg, exit_status>>
    /\ UNCHANGED <<env_vars, unit>>

\* line 134
Process ==
    /\ pc = "process"
    /\ calls' = Append(calls, "process_waiver_matches")
    /\ LET r == process_waiver_matches(eyf_ids_with_filepaths)
       IN  /\ pdfs_to_combine' = r.value
           /\ stdout' = stdout \o r.printed
    /\ pc' = "prompt"
    /\ UNCHANGED <<eyf_ids, valid_files, invalid_files, eyf_ids_with_filepaths,
                   response, user_input, exc, combine_arg, exit_status>>
    /\ UNCHANGED <<env_vars, unit>>

\* line 141 with the test turned round: every answer but 'n' goes on
proceeds_unless_n(answer) == answer # <<"n">>

\* line 141: user_input != 'y' cancels
proceeds(answer) == answer = <<"y">>

\* lines 136-143: the summary, the prompt and the decision.  sys.exit(0)
\* raises SystemExit inside the try block, like sys.exit(1) above
Prompt ==
    /\ pc = "prompt"
    /\ \/ \E typed \in Responses :
            /\ response' = typed
            /\ user_input' = Lower(Strip(typed))
            /\ IF proceeds(Lower(Strip(typed)))
               THEN /\ stdout' = Append(stdout,
                                    <<"matched", Len(pdfs_to_combine), Len(eyf_ids)>>)
                    /\ pc' = "combine"
                    /\ UNCHANGED <<exc, exit_status>>
               ELSE /\ stdout' = stdout
                                  \o <<<<"matched", Len(pdfs_to_combine), Len(eyf_ids)>>,
                                       <<"cancelled">>>>
                    /\ IF handler_catches("SystemExit")
                       THEN /\ exc' = [type |-> "SystemExit", msg |-> "0"]
                            /\ pc' = "except"
                            /\ UNCHANGED exit_status
                       ELSE /\ pc' = "exit"
                            /\ exit_status' = 0
                            /\ UNCHANGED exc
       \/ /\ stdout' = Append(stdout, <<"matched", Len(pdfs_to_combine), Len(eyf_ids)>>)
          /\ exc' = EndOfInput
          /\ pc' = "except"
          /\ UNCHANGED <<response, user_input, exit_status>>
    /\ UNCHANGED <<eyf_ids, valid_files, invalid_files, eyf_ids_with_filepaths,
                   pdfs_to_combine, calls, combine_arg>>
    /\ UNCHANGED <<env_vars, unit>>

\* line 145, after which main returns and the process ends with status 0
Combine ==
    /\ pc = "combine"
    /\ calls' = Append(calls, "combine_pdfs")
    /\ combine_arg' = Append(combine_arg, pdfs_to_combine)
    /\ stdout' = stdout \o combine_pdfs(pdfs_to_combine)
    /\ pc' = "exit"
    /\ exit_status' = 0
    /\ UNCHANGED <<eyf_ids, valid_files, invalid_files, eyf_ids_with_filepaths,
                   pdfs_to_combine, response, user_input, exc>>
    /\ UNCHANGED <<env_vars, unit>>

\* lines 147-148: the handler prints and main returns; no exit call is made,
\* so the process ends with status 0
Handler ==
    /\ pc = "except"
    /\ stdout' = Append(stdout, <<"unexpected_error", exc.msg>>)
    /\ pc' = "exit"
    /\ exit_status' = 0
    /\ UNCHANGED <<eyf_ids, valid_files, invalid_files, eyf_ids_with_filepaths,
                   pdfs_to_combine, response, user_input, exc, calls, combine_arg>>
    /\ UNCHANGED <<env_vars, unit>>

Next ==
    \/ CheckArgs
    \/ ReadIds
    \/ Validate
    \/ CheckInvalid
    \/ Match
    \/ Process
    \/ Prompt
    \/ Combine
    \/ Handler

Spec == Init /\ [][Next]_vars

----------------------------------------------------------------------------
(* Direct calls of the functions, one per behaviour, on inputs drawn from   *)
(* bounded sets; main is not running.                                       *)

TextChars == {"1", " ", "\n", "\r"}
Texts == SeqsUpTo(TextChars, MaxTextLen)

PathA == "1_a_KCS Records Consent_x.pdf"
PathB == "1_b_KCS Records Consent_.pdf"
PathC == "12_a b_KCS Records Consent_y.pdf"

\* file lists of a match result: none, one, two and three candidates
FileLists ==
    { <<>>, <<PathA>>, <<PathB>>, <<PathA, PathB>>, <<PathB, PathA>>,
      <<PathA, PathB, PathC>> }

ResultIds == { <<"1">>, <<"1", "2">> }

MatchResults == SeqsUpTo(ResultIds \X FileLists, MaxResults)

InitUnit ==
    /\ argv_len = 3
    /\ ids_file = [exists |-> FALSE, text |-> <<>>]
    /\ folder = [exists |-> FALSE, entries |-> {}]
    /\ pc = "idle"
    /\ eyf_ids = <<>>
    /\ valid_files = <<>>
    /\ invalid_files = <<>>
    /\ eyf_ids_with_filepaths = <<>>
    /\ pdfs_to_combine = <<>>
    /\ response = <<>>
    /\ user_input = <<>>
    /\ exc = NoException
    /\ stdout = <<>>
    /\ calls = <<>>
    /\ combine_arg = <<>>
    /\ exit_status = 0
    /\ unit = NoCall

CallRead ==
    /\ unit = NoCall
    /\ \E f \in {[exists |-> FALSE, text |-> <<>>]}
                \cup {[exists |-> TRUE, text |-> t] : t \in Texts} :
         unit' = [fn |-> "read_eyf_ids_from_file", file |-> f,
                  out |-> read_eyf_ids_from_file(f)]
    /\ UNCHANGED <<env_vars, main_vars>>

CallValidate ==
    /\ unit = NoCall
    /\ \E fld \in FoldersUpTo(MaxListed) : \E listing \in Orders(fld.entries) :
         unit' = [fn |-> "validate_file_formats", folder |-> fld, again |-> FALSE,
                  first |-> validate_file_formats(fld, listing),
                  out |-> validate_file_formats(fld, listing)]
    /\ UNCHANGED <<env_vars, main_vars>>

\* a second call on the unchanged folder
CallValidateAgain ==
    /\ unit.fn = "validate_file_formats"
    /\ ~unit.again
    /\ \E listing \in Orders(unit.folder.entries) :
         unit' = [unit EXCEPT !.again = TRUE,
                              !.out = validate_file_formats(unit.folder, listing)]
    /\ UNCHANGED <<env_vars, main_vars>>

CallGetFiles ==
    /\ unit = NoCall
    /\ \E fld \in Folders : \E listing \in Orders(fld.entries) :
       \E ids \in SeqsUpTo(GlobIds, MaxIds) :
         unit' = [fn |-> "get_files_for_eyf_ids", folder |-> fld, ids |-> ids,
                  out |-> get_files_for_eyf_ids(fld, listing, ids)]
    /\ UNCHANGED <<env_vars, main_vars>>

CallProcess ==
    /\ unit = NoCall
    /\ \E results \in MatchResults :
         unit' = [fn |-> "process_waiver_matches", results |-> results,
                  out |-> process_waiver_matches(results)]
    /\ UNCHANGED <<env_vars, main_vars>>

NextUnit ==
    \/ CallRead
    \/ CallValidate
    \/ CallValidateAgain
    \/ CallGetFiles
    \/ CallProcess

UnitSpec == InitUnit /\ [][NextUnit]_vars

----------------------------------------------------------------------------
(* Properties *)

Printed(kind) == SelectSeq(stdout, LAMBDA l : l[1] = kind)
Called(f) == Len(SelectSeq(calls, LAMBDA c : c = f))
Prompted == Len(Printed("matched")) > 0
NoRepeats(s) == \A i, j \in DOMAIN s : i # j => s[i] # s[j]
HasPrefix(s, t) == HasAt(s, 1, t)
HasSuffix(s, t) == HasAt(s, Len(s) - Len(t) + 1, t)

\* C1: when the identifier file is absent, the failure is caught by the
\* top-level handler, printed as an Unexpected Error, and does not leave main.
C1_MissingIdsFileHandled ==
    (Terminated /\ argv_len = 3 /\ ~ids_file.exists) =>
        /\ pc = "exit"
        /\ Len(Printed("unexpected_error")) = 1

\* C2: read_eyf_ids_from_file returns, in file order, one identifier per
\* non-empty line, stripped; none of them is the empty string.
C2_OneIdPerNonEmptyLine ==
    (unit.fn = "read_eyf_ids_from_file" /\ unit.file.exists) =>
        LET lines == ReadLines(TranslateNewlines(unit.file.text))
            inked == SelectSeq(lines, LAMBDA l : Strip(l) # <<>>)
        IN  /\ ~unit.out.raised
            /\ unit.out.value = [i \in DOMAIN inked |-> Strip(inked[i])]
            /\ \A i \in DOMAIN unit.out.value : unit.out.value[i] # <<>>

\* C3: once the validator has found a non-conforming filename, main only
\* reports and exits: every non-conforming file of the folder is printed, the
\* exit status is 1, the handler prints nothing, and the matcher, the
\* reporter, the prompt and the assembler never run.
C3_FormatViolationExits ==
    Len(invalid_files) > 0 =>
        /\ pc \in {"check", "exit"}
        /\ Called("get_files_for_eyf_ids") = 0
        /\ Called("process_waiver_matches") = 0
        /\ Called("combine_pdfs") = 0
        /\ ~Prompted
        /\ Len(Printed("unexpected_error")) = 0
        /\ pc = "exit" =>
             /\ exit_status = 1
             /\ {l[2] : l \in Range(Printed("invalid_file"))}
                  = {e.name : e \in {x \in folder.entries :
                                        x.is_file /\ ~regex_match(chars(x.name))}}
             /\ Len(Printed("invalid_file")) = Len(invalid_files)

C3_Witness ==
    /\ pc = "exit"
    /\ Len(invalid_files) = 2
    /\ Len(valid_files) = 0
    /\ exit_status = 1

\* C4: process_waiver_matches returns the single path of every result with
\* exactly one file, in the order of the results, and nothing else; it prints
\* one 'no waiver' error per result with no file and one 'multiple waivers'
\* error, followed by every candidate, per result with several files.
C4_ProcessBuckets ==
    unit.fn = "process_waiver_matches" =>
        LET rs == unit.results
            none == SelectSeq(rs, LAMBDA r : Len(r[2]) = 0)
            one == SelectSeq(rs, LAMBDA r : Len(r[2]) = 1)
            many == SelectSeq(rs, LAMBDA r : Len(r[2]) > 1)
            printed == unit.out.printed
            lines(kind) == SelectSeq(printed, LAMBDA l : l[1] = kind)
        IN  /\ Len(none) + Len(one) + Len(many) = Len(rs)
            /\ unit.out.value = [i \in DOMAIN one |-> one[i][2][1]]
            /\ lines("no_waiver") = [i \in DOMAIN none |-> <<"no_waiver", none[i][1]>>]
            /\ lines("multiple") = [i \in DOMAIN many |-> <<"multiple", many[i][1]>>]
            /\ lines("candidate") =
                 Concat([i \in DOMAIN many |->
                           [k \in DOMAIN many[i][2] |-> <<"candidate", many[i][2][k]>>]])
            /\ \A i \in DOMAIN printed :
                 printed[i][1] \in {"no_waiver", "multiple", "candidate"}

\* the reporter example of the specification: an unmatched, a resolved and an
\* ambiguous identifier, in that order
C4_Witness ==
    /\ unit.fn = "process_waiver_matches"
    /\ Len(unit.results) = 3
    /\ Len(unit.results[1][2]) = 0
    /\ Len(unit.results[2][2]) = 1
    /\ Len(unit.results[3][2]) = 2
    /\ unit.out.value = <<unit.results[2][2][1]>>
    /\ Len(unit.out.printed) = 4

\* the answers that are 'y' once stripped and lower-cased
Affirmative == {r \in Responses : Strip(r) \in {<<"y">>, <<"Y">>}}
Answered == Prompted /\ exc.type # "EOFError"

\* C5: once the prompt has been reached, combine_pdfs is called if and only
\* if the answer is affirmative, then exactly once and with the sequence the
\* reporter returned; on any other answer the process ends with status 0 and
\* combine_pdfs is never called.
C5_AssemblerIffAffirmative ==
    /\ Called("combine_pdfs") = Len(combine_arg)
    /\ Len(combine_arg) <= 1
    /\ Len(combine_arg) = 1 =>
         /\ Answered
         /\ response \in Affirmative
         /\ combine_arg[1] = pdfs_to_combine
         /\ combine_arg[1] = process_waiver_matches(eyf_ids_with_filepaths).value
    /\ (Terminated /\ Prompted) =>
         IF Answered /\ response \in Affirmative
         THEN Len(combine_arg) = 1
         ELSE Len(combine_arg) = 0 /\ exit_status = 0 /\ pc = "exit"

C5_Witness ==
    /\ Terminated
    /\ Prompted
    /\ response = <<" ", "Y">>
    /\ Len(combine_arg) = 1
    /\ Len(combine_arg[1]) = 2

\* C6: get_files_for_eyf_ids returns one result per identifier, in order, and
\* the files of the i-th result are exactly the entries whose name begins
\* with the literal i-th identifier followed by '_' and ends with '.pdf'.
C6_LiteralPrefixMatch ==
    (unit.fn = "get_files_for_eyf_ids" /\ unit.folder.exists) =>
        /\ ~unit.out.raised
        /\ Len(unit.out.value) = Len(unit.ids)
        /\ \A i \in DOMAIN unit.ids :
             /\ unit.out.value[i][1] = unit.ids[i]
             /\ NoRepeats(unit.out.value[i][2])
             /\ Range(unit.out.value[i][2])
                  = {e.name : e \in {x \in unit.folder.entries :
                        /\ HasPrefix(chars(x.name), unit.ids[i] \o <<"_">>)
                        /\ HasSuffix(chars(x.name), PdfSuffix)}}

\* C7: when the folder does not exist, the handler prints 'folder does not
\* exist', nothing is matched, prompted or assembled, and the process ends
\* with status 0; status 1 comes only from a wrong argument count or a
\* naming-format violation.
C7_MissingFolderStatus ==
    /\ (Terminated /\ argv_len = 3 /\ ~folder.exists) =>
         /\ pc = "exit"
         /\ exit_status = 0
         /\ Printed("unexpected_error")
              = <<<<"unexpected_error", FolderDoesNotExist.msg>>>>
         /\ Called("get_files_for_eyf_ids") = 0
         /\ Called("combine_pdfs") = 0
         /\ ~Prompted
    /\ (Terminated /\ exit_status = 1) =>
         argv_len # 3 \/ Len(invalid_files) > 0

\* the identifiers for which the folder holds exactly one matching entry
Resolved ==
    {i \in DOMAIN eyf_ids :
        Cardinality({e \in folder.entries :
                        fnmatch(chars(e.name), glob_pattern(eyf_ids[i]))}) = 1}

\* C8: the prompt reports 'R out of T', T the number of identifiers loaded
\* and R the number of them with exactly one matching file, 0 <= R <= T; an
\* empty identifier file gives '0 out of 0', an empty resolved sequence and,
\* on 'y', an assembler called with the empty sequence.
C8_PromptCounts ==
    Prompted =>
        /\ Printed("matched") = <<<<"matched", Cardinality(Resolved), Len(eyf_ids)>>>>
        /\ Len(eyf_ids) = Len(ReadLines(TranslateNewlines(ids_file.text)))
        /\ Cardinality(Resolved) <= Len(eyf_ids)
        /\ ids_file.text = <<>> =>
             /\ Printed("matched") = <<<<"matched", 0, 0>>>>
             /\ pdfs_to_combine = <<>>
             /\ \A k \in DOMAIN combine_arg : combine_arg[k] = <<>>
             /\ (Terminated /\ Answered /\ response \in Affirmative) =>
                  combine_arg = << <<>> >>

C8_Witness ==
    /\ Prompted
    /\ ids_file.text = <<>>
    /\ Cardinality(folder.entries) = 2
    /\ combine_arg = << <<>> >>
    /\ Printed("pdfs_to_combine") = <<<<"pdfs_to_combine">>>>

\* C9: for an existing folder, validate_file_formats returns two disjoint
\* sequences that together hold exactly the names of the regular files of the
\* folder, a name being valid if and only if it matches the pattern; a second
\* call on the unchanged folder classifies the same way.
C9_ValidatorPartition ==
    (unit.fn = "validate_file_formats" /\ unit.folder.exists) =>
        LET files == {e.name : e \in {x \in unit.folder.entries : x.is_file}}
            valid == unit.out.valid_files
            invalid == unit.out.invalid_files
        IN  /\ ~unit.out.raised
            /\ Range(valid) \cap Range(invalid) = {}
            /\ Range(valid) \cup Range(invalid) = files
            /\ NoRepeats(valid) /\ NoRepeats(invalid)
            /\ \A n \in files : n \in Range(valid) <=> regex_match(chars(n))
            /\ (\A n \in files : regex_match(chars(n))) =>
                 invalid = <<>> /\ Len(valid) = Cardinality(files)
            /\ Range(unit.first.valid_files) = Range(valid)
            /\ Range(unit.first.invalid_files) = Range(invalid)

\* a second call that enumerated the folder in another order, over a folder
\* with a subfolder in it
C9_Witness ==
    /\ unit.fn = "validate_file_formats"
    /\ unit.folder.exists
    /\ unit.again
    /\ unit.out.valid_files # unit.first.valid_files
    /\ \E e \in unit.folder.entries : ~e.is_file

DistinctIds == NoRepeats(eyf_ids)
DigitIds == \A i \in DOMAIN eyf_ids : \A k \in DOMAIN eyf_ids[i] : IsDigit(eyf_ids[i][k])

\* C10 (as stated): for pairwise distinct identifiers, no file path occurs
\* twice in the resolved sequence.
C10_NoDuplicateResolved ==
    (Called("process_waiver_matches") = 1 /\ DistinctIds) =>
        NoRepeats(pdfs_to_combine)

\* C10 (amended): for pairwise distinct identifiers made of digits only, no
\* file path occurs twice in the resolved sequence.
C10_NoDuplicateResolvedDigits ==
    (Called("process_waiver_matches") = 1 /\ DistinctIds /\ DigitIds) =>
        NoRepeats(pdfs_to_combine)

C10_Witness ==
    /\ Called("combine_pdfs") = 1
    /\ DistinctIds
    /\ DigitIds
    /\ Len(eyf_ids) = 2
    /\ Len(combine_arg[1]) = 2

====
